---- MODULE Spec2Model ----
(***************************************************************************)
(* Tic-Tac-Toe smart bot simulation: the heuristic move selector of        *)
(* smart_bot.py, the board handling of board.py and the round loop of      *)
(* main.py.                                                                *)
(*                                                                         *)
(* A Python dict is modelled as a sequence of <<key, value>> pairs in      *)
(* insertion order; a Python list as a sequence.  The board is a sequence  *)
(* of three rows of three cells; Python's index i is index i + 1 here.     *)
(***************************************************************************)
EXTENDS Integers, Sequences, FiniteSets, TLC

VARIABLES game_board, player_1, player_2, round, pc, message, draws,
          order, player_symbol, opponent_symbol,
          curr_player_optimized_moves, opponent_optimized_moves,
          move, random_move, rejected

vars == <<game_board, player_1, player_2, round, pc, message, draws,
          order, player_symbol, opponent_symbol,
          curr_player_optimized_moves, opponent_optimized_moves,
          move, random_move, rejected>>

\* ------------------------------------------------------------------------
\* Bounds of the model
\* ------------------------------------------------------------------------
MaxRounds == 2
MaxRejected == 1

\* ------------------------------------------------------------------------
\* Python dict and list helpers
\* ------------------------------------------------------------------------
Max(a, b) == IF a >= b THEN a ELSE b

Range(s) == {s[i] : i \in 1..Len(s)}

Keys(d) == {d[i][1] : i \in 1..Len(d)}

SetMax(S) == CHOOSE x \in S : \A y \in S : y <= x

\* d.get(k, 0)
DictGet(d, k) ==
    IF k \in Keys(d)
    THEN LET i == CHOOSE j \in 1..Len(d) : d[j][1] = k IN d[i][2]
    ELSE 0

\* the dict left by the assignments d[k] = v of the sequence writes, made in
\* order on an empty dict: a key stands where it was first written and
\* holds the value written last
DictOfWrites(writes) ==
    LET n == Len(writes)
        first == SelectSeq([i \in 1..n |-> i],
                           LAMBDA i : \A j \in 1..(i - 1) : writes[j][1] # writes[i][1])
    IN  [p \in 1..Len(first) |->
            LET k == writes[first[p]][1]
                last == SetMax({j \in 1..n : writes[j][1] = k})
            IN  <<k, writes[last][2]>>]

\* the dict left by combined[k] = max(combined[k], v) for the items of the
\* sequence, made in order on an empty defaultdict(int)
DictOfMaxWrites(writes) ==
    LET n == Len(writes)
        first == SelectSeq([i \in 1..n |-> i],
                           LAMBDA i : \A j \in 1..(i - 1) : writes[j][1] # writes[i][1])
    IN  [p \in 1..Len(first) |->
            LET k == writes[first[p]][1]
            IN  <<k, SetMax({0} \cup {writes[j][2] : j \in {i \in 1..n : writes[i][1] = k}})>>]

\* sorted(items, key = value, reverse = True) is stable: the items of the
\* highest value in their order, then those of the next value, down to v = 0
RECURSIVE ItemsFrom(_, _)
ItemsFrom(d, v) ==
    IF v < 0 THEN <<>>
    ELSE SelectSeq(d, LAMBDA item : item[2] = v) \o ItemsFrom(d, v - 1)

\* sort_dictonary that leaves the dict in insertion order
sort_dictonary_unsorted(dictionary) == dictionary

sort_dictonary(dictionary) ==
    IF dictionary = <<>> THEN <<>>
    ELSE ItemsFrom(dictionary, SetMax({dictionary[i][2] : i \in 1..Len(dictionary)}))

\* ------------------------------------------------------------------------
\* smart_bot.py : board queries
\* ------------------------------------------------------------------------
Symbols == {"X", "O"}
Cells == {"_", "X", "O"}

\* the cells of one row, as the list of moves of get_player_fields; prev_rows
\* is 2 * row_index when the row is visited
RowFields(board, symbol, row_index) ==
    LET row == board[row_index + 1]
        prev_rows == 2 * row_index
        moves == [col_index \in 1..Len(row) |-> row_index + prev_rows + (col_index - 1) + 1]
    IN  SelectSeq(moves, LAMBDA m : row[m - row_index - prev_rows] = symbol)

RECURSIVE FieldsFrom(_, _, _)
FieldsFrom(board, symbol, row_index) ==
    IF row_index >= Len(board) THEN <<>>
    ELSE RowFields(board, symbol, row_index)
         \o FieldsFrom(board, symbol, row_index + 1)

\* get_player_fields without the prev_rows offset: row r, column c gives r + c + 1
get_player_fields_no_prev_rows(board, symbol) ==
    LET RowOf(row_index) ==
            SelectSeq([col_index \in 1..3 |-> row_index + (col_index - 1) + 1],
                      LAMBDA m : board[row_index + 1][m - row_index] = symbol)
    IN  RowOf(0) \o RowOf(1) \o RowOf(2)

get_player_fields(board, symbol) == FieldsFrom(board, symbol, 0)

\* get_possible_moves that forgets the fields of "O"
get_possible_moves_only_X(board, iter) ==
    SelectSeq(iter, LAMBDA m : m \notin Range(FieldsFrom(board, "X", 0)))

\* list(set) : the members of the set in the iteration order of the set,
\* which the language leaves to the implementation; iter is that order
get_possible_moves(board, iter) ==
    LET occupied_fields_other == get_player_fields(board, "X")
        occupied_fields_KI == get_player_fields(board, "O")
        occupied_fields_all == Range(occupied_fields_other \o occupied_fields_KI)
        all_fields == 1..9
        possible_moves == all_fields \ occupied_fields_all
    IN  SelectSeq(iter, LAMBDA m : m \in possible_moves)

get_diagonal_counts(board, symbol) ==
    LET count_diag1 == Cardinality({i \in 0..2 : board[i + 1][i + 1] = symbol})
        count_diag2 == Cardinality({i \in 0..2 : board[i + 1][2 - i + 1] = symbol})
    IN  << <<0, count_diag1>>, <<1, count_diag2>> >>

get_horizontal_counts(board, symbol) ==
    LET count_each_row ==
            [r \in 1..Len(board) |->
                <<r - 1, Cardinality({c \in 1..Len(board[r]) : board[r][c] = symbol})>>]
    IN  sort_dictonary(count_each_row)

transposed(board) ==
    [i \in 1..Len(board[1]) |-> [j \in 1..Len(board) |-> board[j][i]]]

get_vertical_counts(board, symbol) ==
    get_horizontal_counts(transposed(board), symbol)

\* ------------------------------------------------------------------------
\* smart_bot.py : line scoring
\* ------------------------------------------------------------------------
\* the writes best_moves[move] = appearance_count of the loops
\*   for index, appearance_count in sorted_fields.items():
\*       for move in possible_moves:
\*           if move in all_moves[index]: ...
\* in the order in which they are made
RECURSIVE LineWrites(_, _, _, _)
LineWrites(sorted_fields, possible_moves, all_moves, i) ==
    IF i > Len(sorted_fields) THEN <<>>
    ELSE LET line == Range(all_moves[sorted_fields[i][1] + 1])
             appearance_count == sorted_fields[i][2]
             on_line == SelectSeq(possible_moves, LAMBDA m : m \in line)
         IN  [j \in 1..Len(on_line) |-> <<on_line[j], appearance_count>>]
             \o LineWrites(sorted_fields, possible_moves, all_moves, i + 1)

diagonal_moves == << <<1, 5, 9>>, <<3, 5, 7>> >>

get_optimized_diagonal_moves(sorted_fields, possible_moves) ==
    sort_dictonary(DictOfWrites(LineWrites(sorted_fields, possible_moves, diagonal_moves, 1)))

row_moves == << <<1, 2, 3>>, <<4, 5, 6>>, <<7, 8, 9>> >>

get_optimized_straight_moves(sorted_fields, possible_moves, horizontal) ==
    LET all_moves == IF horizontal THEN row_moves ELSE transposed(row_moves)
    IN  DictOfWrites(LineWrites(sorted_fields, possible_moves, all_moves, 1))

\* ------------------------------------------------------------------------
\* smart_bot.py : merging and selection
\* ------------------------------------------------------------------------
get_sorted_moves(optimized_horizontal_moves, optimized_vertical_moves) ==
    sort_dictonary(DictOfMaxWrites(optimized_horizontal_moves \o optimized_vertical_moves))

calc_optimized_move(board, symbol, iter) ==
    LET possible_moves == get_possible_moves(board, iter)
        sorted_horizontal_fields == get_horizontal_counts(board, symbol)
        sorted_vertical_fields == get_vertical_counts(board, symbol)
        sorted_diagonal_fields == get_diagonal_counts(board, symbol)
        optimized_hori_moves == get_optimized_straight_moves(sorted_horizontal_fields, possible_moves, TRUE)
        optimized_verti_moves == get_optimized_straight_moves(sorted_vertical_fields, possible_moves, FALSE)
        optimized_diag_moves == get_optimized_diagonal_moves(sorted_diagonal_fields, possible_moves)
        optimized_diag_pref_moves == get_sorted_moves(optimized_diag_moves, optimized_verti_moves)
    IN  get_sorted_moves(optimized_diag_pref_moves, optimized_hori_moves)

\* final_move with the two score maps merged in the other order
final_move_opponent_first(curr_moves, opponent_moves) ==
    LET min_max_sorted_moves == get_sorted_moves(opponent_moves, curr_moves)
    IN  IF min_max_sorted_moves # <<>> THEN min_max_sorted_moves[1][1] ELSE -1

\* make_smart_move from the two score maps on: merge, sort, first key or -1
final_move(curr_moves, opponent_moves) ==
    LET min_max_sorted_moves == get_sorted_moves(curr_moves, opponent_moves)
        final_moves == [i \in 1..Len(min_max_sorted_moves) |-> min_max_sorted_moves[i][1]]
    IN  IF final_moves # <<>> THEN final_moves[1] ELSE -1

make_smart_move(board, symbol, opponent, iter) ==
    final_move(calc_optimized_move(board, symbol, iter),
               calc_optimized_move(board, opponent, iter))

\* ------------------------------------------------------------------------
\* State shared by the specifications
\* ------------------------------------------------------------------------
\* main.py: the two bots
PatricStar == [name |-> "Patric Star", number |-> 0, wins |-> 0, symbol |-> "X", IQ |-> "dumb"]
Spock == [name |-> "Spock", number |-> 1, wins |-> 0, symbol |-> "O", IQ |-> "smart"]

tic_tac_toe_board == << <<"_", "_", "_">>, <<"_", "_", "_">>, <<"_", "_", "_">> >>

\* every 3x3 grid over the three cell values
AllBoards == [1..3 -> [1..3 -> Cells]]

\* iteration orders of the set of possible moves: ascending (a hash table
\* with more slots than members), by hash modulo 8 (the small table),
\* and descending
IterOrders == { <<1, 2, 3, 4, 5, 6, 7, 8, 9>>,
                <<8, 9, 1, 2, 3, 4, 5, 6, 7>>,
                <<9, 8, 7, 6, 5, 4, 3, 2, 1>> }

Ascending == <<1, 2, 3, 4, 5, 6, 7, 8, 9>>

\* ------------------------------------------------------------------------
\* Specification of one call of make_smart_move on an arbitrary board
\* ------------------------------------------------------------------------
InitSmart ==
    /\ game_board \in AllBoards
    /\ player_symbol \in Symbols
    /\ opponent_symbol = CHOOSE s \in Symbols : s # player_symbol
    /\ pc = "call"
    /\ move = 0
    /\ order = Ascending
    /\ curr_player_optimized_moves = <<>>
    /\ opponent_optimized_moves = <<>>
    /\ player_1 = PatricStar
    /\ player_2 = Spock
    /\ round = 0
    /\ message = ""
    /\ draws = 0
    /\ random_move = 0
    /\ rejected = 0

\* one call make_smart_move(game_board, player_symbol, opponent_symbol); the
\* two score maps it computes on the way are kept
CallSmartMove ==
    /\ pc = "call"
    /\ \E ord \in IterOrders :
          /\ order' = ord
          /\ curr_player_optimized_moves' = calc_optimized_move(game_board, player_symbol, ord)
          /\ opponent_optimized_moves' = calc_optimized_move(game_board, opponent_symbol, ord)
    /\ move' = final_move(curr_player_optimized_moves', opponent_optimized_moves')
    /\ pc' = "returned"
    /\ UNCHANGED <<game_board, player_1, player_2, round, message, draws,
                   player_symbol, opponent_symbol, random_move, rejected>>

NextSmart == CallSmartMove

SpecSmart == InitSmart /\ [][NextSmart]_vars

\* ------------------------------------------------------------------------
\* Specification of one call of make_random_move on an arbitrary board
\* ------------------------------------------------------------------------
Min(a, b) == IF a <= b THEN a ELSE b

\* random.randint(1, 9) with the last value left out
randint_1_8 == 1..8

\* the values random.randint(1, 9) can return
randint_1_9 == 1..9

\* make_random_move reads the board through get_possible_moves only: one
\* board for each of the 2^9 sets of empty cells, its stones being "X" on
\* the odd moves and "O" on the even ones
RandomBoards ==
    {b \in AllBoards :
        \A r \in 1..3 : \A c \in 1..3 :
            b[r][c] \in {"_", IF (3 * (r - 1) + c) % 2 = 1 THEN "X" ELSE "O"}}

InitRandom ==
    /\ game_board \in RandomBoards
    /\ pc = "sampling"
    /\ move = 0
    /\ random_move = 0
    /\ rejected = 0
    /\ order = Ascending
    /\ player_symbol = "X"
    /\ opponent_symbol = "O"
    /\ curr_player_optimized_moves = <<>>
    /\ opponent_optimized_moves = <<>>
    /\ player_1 = PatricStar
    /\ player_2 = Spock
    /\ round = 0
    /\ message = ""
    /\ draws = 0

\* one pass of the loop of make_random_move: the sample v is drawn and is
\* returned when it is a possible move; rejected counts the passes that
\* did not return, up to MaxRejected
RandomSample(v) ==
    /\ pc = "sampling"
    /\ v \in randint_1_9
    /\ random_move' = v
    /\ IF v \in Range(get_possible_moves(game_board, order))
       THEN /\ pc' = "returned"
            /\ move' = v
            /\ UNCHANGED rejected
       ELSE /\ pc' = "sampling"
            /\ rejected' = Min(rejected + 1, MaxRejected)
            /\ UNCHANGED move
    /\ UNCHANGED <<game_board, player_1, player_2, round, message, draws, order,
                   player_symbol, opponent_symbol,
                   curr_player_optimized_moves, opponent_optimized_moves>>

NextRandom == \E v \in 1..9 : RandomSample(v)

\* the sampling is fair: each value that can be drawn is drawn again and again
SpecRandom == InitRandom /\ [][NextRandom]_vars /\ \A v \in 1..9 : WF_vars(RandomSample(v))

\* ------------------------------------------------------------------------
\* board.py
\* ------------------------------------------------------------------------
get_board == [r \in 1..Len(tic_tac_toe_board) |-> tic_tac_toe_board[r]]

init_board(board) == [row \in 1..3 |-> [col \in 1..3 |-> "_"]]

\* check_win without the two diagonal tests
check_win_no_diagonals(board, player) ==
    \E i \in 0..2 :
        \/ \A j \in 0..2 : board[i + 1][j + 1] = player.symbol
        \/ \A j \in 0..2 : board[j + 1][i + 1] = player.symbol

check_win(board, player) ==
    \/ \E i \in 0..2 :
          \/ \A j \in 0..2 : board[i + 1][j + 1] = player.symbol
          \/ \A j \in 0..2 : board[j + 1][i + 1] = player.symbol
    \/ \A i \in 0..2 : board[i + 1][i + 1] = player.symbol
    \/ \A i \in 0..2 : board[i + 1][2 - i + 1] = player.symbol

check_draw(board) ==
    \A row \in 1..Len(board) : \A cell \in 1..Len(board[row]) : board[row][cell] # "_"

\* print_winner that announces the winner and does not count the win
print_winner_no_count(player) == player

print_winner(player) == [player EXCEPT !.wins = @ + 1]

\* the values make_random_move can return: the samples that are possible
\* moves; none on a board without an empty cell, where the loop never ends
make_random_move(board, iter) ==
    {v \in randint_1_9 : v \in Range(get_possible_moves(board, iter))}

\* str(move).isdigit(): the decimal digits of a non-negative integer
isdigit(v) == v >= 0

\* ------------------------------------------------------------------------
\* main.py : the rounds of the simulation
\* ------------------------------------------------------------------------
round_limit == MaxRounds

Init ==
    /\ player_1 = PatricStar
    /\ player_2 = Spock
    /\ round = 0
    /\ game_board = tic_tac_toe_board
    /\ pc = "round"
    /\ message = ""
    /\ draws = 0
    /\ move = 0
    /\ order = Ascending
    /\ player_symbol = "X"
    /\ opponent_symbol = "O"
    /\ curr_player_optimized_moves = <<>>
    /\ opponent_optimized_moves = <<>>
    /\ random_move = 0
    /\ rejected = 0

\* StartRound that also gives the first move back to the "X" player
StartRoundResetRoles ==
    /\ pc = "round"
    /\ round < round_limit
    /\ game_board' = init_board(get_board)
    /\ player_1' = IF player_1.symbol = "X" THEN player_1 ELSE player_2
    /\ player_2' = IF player_1.symbol = "X" THEN player_2 ELSE player_1
    /\ pc' = "move"
    /\ UNCHANGED <<round, message, draws, order, player_symbol,
                   opponent_symbol, curr_player_optimized_moves,
                   opponent_optimized_moves, move, random_move, rejected>>

\* main.py 16-18: a new round gets a reset board
StartRound ==
    /\ pc = "round"
    /\ round < round_limit
    /\ game_board' = init_board(get_board)
    /\ pc' = "move"
    /\ UNCHANGED <<player_1, player_2, round, message, draws, order, player_symbol,
                   opponent_symbol, curr_player_optimized_moves,
                   opponent_optimized_moves, move, random_move, rejected>>

\* one pass of the loop of make_move(player_1, game_board, player_2) with
\* the proposal v: the three validations, then the stone is set; a failed
\* validation prints an error and the loop proposes again
MakeMovePass(v) ==
    /\ move' = v
    /\ IF ~isdigit(v) \/ v < 1 \/ v > 9
       THEN /\ message' = "Error"
            /\ pc' = "move"
            /\ UNCHANGED game_board
       ELSE LET row == (v - 1) \div 3
                col == (v - 1) % 3
            IN  IF game_board[row + 1][col + 1] # "_"
                THEN /\ message' = "Error"
                     /\ pc' = "move"
                     /\ UNCHANGED game_board
                ELSE /\ game_board' = [game_board EXCEPT ![row + 1][col + 1] = player_1.symbol]
                     /\ pc' = "check"
                     /\ UNCHANGED message

\* board.py 63-96, main.py 22
MakeMove ==
    /\ pc = "move"
    /\ \E ord \in IterOrders :
          /\ order' = ord
          /\ IF player_1.IQ = "dumb"
             THEN \E v \in make_random_move(game_board, ord) : MakeMovePass(v)
             ELSE MakeMovePass(make_smart_move(game_board, player_1.symbol, player_2.symbol, ord))
    /\ UNCHANGED <<player_1, player_2, round, draws, player_symbol, opponent_symbol,
                   curr_player_optimized_moves, opponent_optimized_moves,
                   random_move, rejected>>

\* main.py 26-28, 39
WinRound ==
    /\ pc = "check"
    /\ check_win(game_board, player_1)
    /\ player_1' = print_winner(player_1)
    /\ message' = "has won!"
    /\ round' = round + 1
    /\ pc' = "round"
    /\ UNCHANGED <<game_board, player_2, draws, order, player_symbol, opponent_symbol,
                   curr_player_optimized_moves, opponent_optimized_moves,
                   move, random_move, rejected>>

\* main.py 31-33, 39
DrawRound ==
    /\ pc = "check"
    /\ ~check_win(game_board, player_1)
    /\ check_draw(game_board)
    /\ message' = "Draw. No winner."
    /\ round' = round + 1
    /\ pc' = "round"
    /\ UNCHANGED <<game_board, player_1, player_2, draws, order, player_symbol,
                   opponent_symbol, curr_player_optimized_moves,
                   opponent_optimized_moves, move, random_move, rejected>>

\* main.py 36
SwitchPlayers ==
    /\ pc = "check"
    /\ ~check_win(game_board, player_1)
    /\ ~check_draw(game_board)
    /\ player_1' = player_2
    /\ player_2' = player_1
    /\ pc' = "move"
    /\ UNCHANGED <<game_board, round, message, draws, order, player_symbol,
                   opponent_symbol, curr_player_optimized_moves,
                   opponent_optimized_moves, move, random_move, rejected>>

\* main.py 41-56: after the last round the draws are computed
FinalStats ==
    /\ pc = "round"
    /\ ~(round < round_limit)
    /\ draws' = round - player_1.wins - player_2.wins
    /\ pc' = "done"
    /\ UNCHANGED <<game_board, player_1, player_2, round, message, order,
                   player_symbol, opponent_symbol, curr_player_optimized_moves,
                   opponent_optimized_moves, move, random_move, rejected>>

Next == StartRound \/ MakeMove \/ WinRound \/ DrawRound \/ SwitchPlayers \/ FinalStats

Spec == Init /\ [][Next]_vars

\* ------------------------------------------------------------------------
\* Vocabulary of the properties: cells, lines and stone counts
\* ------------------------------------------------------------------------
CellAt(board, m) == board[((m - 1) \div 3) + 1][((m - 1) % 3) + 1]

EmptyMoves(board) == {m \in 1..9 : CellAt(board, m) = "_"}

Lines == { {1, 2, 3}, {4, 5, 6}, {7, 8, 9},
           {1, 4, 7}, {2, 5, 8}, {3, 6, 9},
           {1, 5, 9}, {3, 5, 7} }

CountOn(board, line, c) == Cardinality({m \in line : CellAt(board, m) = c})

HasLine(board, symbol) == \E line \in Lines : CountOn(board, line, symbol) = 3

SmartReturned == pc = "returned"

SelfScore(m) == DictGet(curr_player_optimized_moves, m)

OpponentScore(m) == DictGet(opponent_optimized_moves, m)

FinalScore(m) == Max(SelfScore(m), OpponentScore(m))

\* ------------------------------------------------------------------------
\* Properties of make_smart_move and calc_optimized_move (SpecSmart)
\* ------------------------------------------------------------------------
\* C1 (Legality): on a board with at least one empty cell make_smart_move
\* returns a move in 1..9 whose cell is empty.
C1_Legality ==
    (SmartReturned /\ EmptyMoves(game_board) # {})
        => (move \in 1..9 /\ CellAt(game_board, move) = "_")

C1_Witness ==
    /\ SmartReturned
    /\ Cardinality(EmptyMoves(game_board)) = 2
    /\ move \in EmptyMoves(game_board)
    /\ move # SetMax(EmptyMoves(game_board))

\* C2 (Maximum selection): the returned move is an empty move and no empty
\* move has a strictly larger finalScore = max(selfScore, opponentScore).
C2_MaximumSelection ==
    (SmartReturned /\ EmptyMoves(game_board) # {})
        => /\ move \in EmptyMoves(game_board)
           /\ Keys(curr_player_optimized_moves) = EmptyMoves(game_board)
           /\ Keys(opponent_optimized_moves) = EmptyMoves(game_board)
           /\ \A m \in EmptyMoves(game_board) : FinalScore(m) <= FinalScore(move)

C2_Witness ==
    /\ SmartReturned
    /\ move \in EmptyMoves(game_board)
    /\ FinalScore(move) = 2
    /\ \E m \in EmptyMoves(game_board) : FinalScore(m) = 0
    /\ \E m \in EmptyMoves(game_board) : FinalScore(m) = 1

\* C3 (Blocking): when some line holds two opponent stones and one empty
\* cell and no line holds two or more self stones, make_smart_move returns
\* an empty cell on a line holding two opponent stones, the diagonal 1-5-9
\* with the centre 5 empty included.
C3_Blocking ==
    ( /\ SmartReturned
      /\ \E line \in Lines : /\ CountOn(game_board, line, opponent_symbol) = 2
                             /\ CountOn(game_board, line, "_") = 1
      /\ \A line \in Lines : CountOn(game_board, line, player_symbol) < 2 )
        => /\ move \in EmptyMoves(game_board)
           /\ \E line \in Lines : /\ move \in line
                                  /\ CountOn(game_board, line, opponent_symbol) = 2

\* C4 (Completion preference): when exactly one line holds two self stones
\* and one empty cell and every other line holds at most one self stone,
\* make_smart_move returns the empty cell of that line, whatever the
\* opponent's stones are, the centre 5 of diagonal 1-5-9 included.
C4_CompletionPreference ==
    SmartReturned =>
        \A line \in Lines :
            ( /\ CountOn(game_board, line, player_symbol) = 2
              /\ CountOn(game_board, line, "_") = 1
              /\ \A other \in Lines \ {line} :
                    CountOn(game_board, other, player_symbol) <= 1 )
                => (move \in line /\ CellAt(game_board, move) = "_")

\* C5 (Score semantics): the score calc_optimized_move gives to an empty
\* move is the largest number of stones of the symbol on any line through
\* the move; for the centre the larger of the two diagonal counts.
C5_ScoreSemantics ==
    SmartReturned =>
        \A m \in EmptyMoves(game_board) :
            SelfScore(m) = SetMax({CountOn(game_board, line, player_symbol) :
                                      line \in {l \in Lines : m \in l}})

\* the symmetries of the square as permutations of the moves 1..9
Compose(p, q) == [m \in 1..9 |-> p[q[m]]]

Rotation == <<3, 6, 9, 2, 5, 8, 1, 4, 7>>

Reflection == <<3, 2, 1, 6, 5, 4, 9, 8, 7>>

Rotations == {Ascending, Rotation, Compose(Rotation, Rotation),
              Compose(Rotation, Compose(Rotation, Rotation))}

SquareSymmetries == Rotations \cup {Compose(Reflection, g) : g \in Rotations}

\* the board g(board): the cell of move m goes to move g[m]
Transform(board, g) ==
    [r \in 1..3 |-> [c \in 1..3 |->
        CellAt(board, CHOOSE m \in 1..9 : g[m] = 3 * (r - 1) + c)]]

\* C6 (Symmetry): for each of the 8 symmetries g of the square and every
\* empty move m, calc_optimized_move(g(board), s) gives g(m) the score
\* calc_optimized_move(board, s) gives m.
C6_Symmetry ==
    SmartReturned =>
        \A g \in SquareSymmetries :
            \A m \in EmptyMoves(game_board) :
                DictGet(calc_optimized_move(Transform(game_board, g), player_symbol, order), g[m])
                    = SelfScore(m)

\* C7 (Exhaustion): on a board without an empty cell make_smart_move returns
\* the sentinel -1 and no value in 1..9; on a board with an empty cell it
\* never returns -1.
C7_Exhaustion ==
    SmartReturned =>
        /\ (EmptyMoves(game_board) = {}) => (move = -1 /\ move \notin 1..9)
        /\ (EmptyMoves(game_board) # {}) => move # -1

C7_Witness ==
    /\ SmartReturned
    /\ EmptyMoves(game_board) = {}
    /\ move = -1

\* ------------------------------------------------------------------------
\* Properties of make_random_move (SpecRandom)
\* ------------------------------------------------------------------------
\* C8 (Random move termination): a pass of the loop returns its sample
\* exactly when the sample is an empty cell, so the move returned is the
\* first empty sample; on a board with an empty cell the call eventually
\* returns under fair sampling; on a full board it never returns.
C8_RandomMoveTermination ==
    /\ [][pc = "sampling" =>
            /\ random_move' \in EmptyMoves(game_board)
                  => (pc' = "returned" /\ move' = random_move')
            /\ random_move' \notin EmptyMoves(game_board)
                  => (pc' = "sampling" /\ move' = move)]_vars
    /\ [](pc = "returned" => (move = random_move /\ CellAt(game_board, move) = "_"))
    /\ [](EmptyMoves(game_board) = {} => pc = "sampling")
    /\ (pc = "sampling" /\ EmptyMoves(game_board) # {}) ~> (pc = "returned")

C8_Witness ==
    /\ pc = "returned"
    /\ rejected > 0
    /\ move \in EmptyMoves(game_board)
    /\ Cardinality(EmptyMoves(game_board)) = 1

\* ------------------------------------------------------------------------
\* Properties of the rounds of the simulation (Spec)
\* ------------------------------------------------------------------------
\* C9 (Move requests only on playable boards): make_move is invoked only on
\* a board with an empty cell on which neither player has three in a line;
\* so make_smart_move never returns -1, make_random_move has a value to
\* return, and make_move accepts the first move proposed: no error is
\* printed and every pass of its loop sets a stone.
C9_MoveOnPlayableBoard ==
    /\ [](pc = "move" =>
            /\ EmptyMoves(game_board) # {}
            /\ ~HasLine(game_board, "X")
            /\ ~HasLine(game_board, "O")
            /\ \A ord \in IterOrders :
                  /\ make_random_move(game_board, ord) # {}
                  /\ make_smart_move(game_board, player_1.symbol, player_2.symbol, ord) # -1)
    /\ [](move # -1 /\ message # "Error")
    /\ [][pc = "move" => (pc' = "check" /\ move' \in EmptyMoves(game_board))]_vars

C9_Witness ==
    /\ pc = "move"
    /\ Cardinality(EmptyMoves(game_board)) = 1
    /\ player_1.IQ = "dumb"
    /\ round = 1

\* the board with the stone of symbol set on move m
WithStone(board, m, symbol) ==
    [r \in 1..3 |-> [c \in 1..3 |->
        IF 3 * (r - 1) + c = m THEN symbol ELSE board[r][c]]]

\* C10 (Round termination and outcome): a round starts from the all-empty
\* board; each make_move sets one stone of the mover on a cell that was
\* empty, so a round has at most 9 moves; after a move the round ends exactly
\* when the mover has a line (one win more for the mover, also on the ninth
\* move) or else the board is full (a draw, no counter changed); the wins
\* never exceed the rounds played and the reported draws are not negative.
C10_RoundOutcome ==
    /\ [][(pc = "round" /\ pc' = "move") => EmptyMoves(game_board') = 1..9]_vars
    /\ [][(pc = "move" /\ pc' # "move") =>
            /\ pc' = "check"
            /\ \E m \in EmptyMoves(game_board) :
                  game_board' = WithStone(game_board, m, player_1.symbol)
            /\ player_1' = player_1 /\ player_2' = player_2 /\ round' = round]_vars
    /\ [][pc = "check" =>
            IF HasLine(game_board, player_1.symbol)
            THEN /\ round' = round + 1
                 /\ player_1' = [player_1 EXCEPT !.wins = player_1.wins + 1]
                 /\ player_2' = player_2
                 /\ message' = "has won!"
            ELSE IF EmptyMoves(game_board) = {}
            THEN /\ round' = round + 1
                 /\ player_1' = player_1
                 /\ player_2' = player_2
                 /\ message' = "Draw. No winner."
            ELSE /\ round' = round
                 /\ pc' = "move"]_vars
    /\ [][round' # round => (pc = "check" /\ pc' = "round")]_vars
    /\ [](player_1.wins + player_2.wins <= round)
    /\ [](pc = "done" => (draws = round - player_1.wins - player_2.wins /\ draws >= 0))

\* a round won with the ninth move
C10_Witness ==
    /\ pc = "round"
    /\ round = 1
    /\ message = "has won!"
    /\ EmptyMoves(game_board) = {}
    /\ player_1.wins = 1

\* ------------------------------------------------------------------------
\* Tie-break of make_smart_move (SpecSmart)
\* ------------------------------------------------------------------------
\* C11 (Tie-break favours the mover's own score): among the empty moves
\* that attain the largest finalScore, the move returned has the largest
\* selfScore, in every iteration order of the set of possible moves; so a
\* move of selfScore 2 is preferred to a move that has only opponentScore 2.
C11_TieBreakOwnScore ==
    (SmartReturned /\ EmptyMoves(game_board) # {})
        => /\ move \in EmptyMoves(game_board)
           /\ \A m \in EmptyMoves(game_board) :
                 FinalScore(m) >= FinalScore(move) => SelfScore(m) <= SelfScore(move)
           /\ (\E m \in EmptyMoves(game_board) : SelfScore(m) = 2) => SelfScore(move) = 2

\* a move of selfScore 2 is returned although another move has opponentScore 2
\* only, in an iteration order that lists that other move first
C11_Witness ==
    /\ SmartReturned
    /\ SelfScore(move) = 2
    /\ \E m \in EmptyMoves(game_board) :
          /\ OpponentScore(m) = 2
          /\ SelfScore(m) < 2
          /\ \E i, j \in 1..9 : i < j /\ order[i] = m /\ order[j] = move

\* ------------------------------------------------------------------------
\* Turn order (Spec)
\* ------------------------------------------------------------------------
\* C12 (Turn order across rounds): within a round the players alternate,
\* each move setting the mover's stone and a move that does not end the
\* round handing the turn to the other player, so the numbers of "X" and
\* "O" stones differ by at most 1; the end of a round and the start of the
\* next one leave the roles as they are, so the next round is started by
\* the player that moved last; round 1 is started by the random "X" player.
C12_TurnOrder ==
    /\ [](LET x == Cardinality({m \in 1..9 : CellAt(game_board, m) = "X"})
              o == Cardinality({m \in 1..9 : CellAt(game_board, m) = "O"})
          IN  x - o \in {-1, 0, 1})
    /\ [](player_1.name # player_2.name /\ player_1.symbol # player_2.symbol)
    /\ [][(pc = "move" /\ pc' = "check") =>
            /\ \E m \in EmptyMoves(game_board) :
                  game_board' = WithStone(game_board, m, player_1.symbol)
            /\ player_1' = player_1 /\ player_2' = player_2]_vars
    /\ [][(pc = "check" /\ pc' = "move") =>
            (player_1' = player_2 /\ player_2' = player_1)]_vars
    /\ [][(pc = "check" /\ pc' = "round") =>
            /\ player_1'.name = player_1.name /\ player_1'.symbol = player_1.symbol
            /\ player_2' = player_2]_vars
    /\ [][pc = "round" => (player_1' = player_1 /\ player_2' = player_2)]_vars
    /\ []((round = 0 /\ pc = "move" /\ EmptyMoves(game_board) = 1..9)
            => (player_1.symbol = "X" /\ player_1.IQ = "dumb"))

\* the second round is started by the smart "O" player, who moved last in
\* the first round
C12_Witness ==
    /\ round = 1
    /\ pc = "move"
    /\ EmptyMoves(game_board) = 1..9
    /\ player_1.symbol = "O"
    /\ player_1.IQ = "smart"

====
